---- MODULE Spec2Model ----
(***************************************************************************)
(* Arrowhead alarm panel integration: the listener / consumer pipeline of  *)
(* ArrowheadAlarmAPI (arrowhead_alarm_api.py) and the reconciling handler  *)
(* of ArrowheadAlarmCoordinator (coordinator.py).                          *)
(*                                                                         *)
(* Text is modelled as a sequence of one-character strings.  Three tokens  *)
(* stand for bytes that are not letters of a frame: "LF" and "CR" are the  *)
(* bytes \n and \r, and "JUNK" is a block of READ_SIZE bytes holding no    *)
(* delimiter, no whitespace, no letter and no digit.                       *)
(***************************************************************************)
EXTENDS Integers, Sequences, FiniteSets, TLC

\* ------------------------------------------------------------------ bounds
\* Chunks the panel delivers in one run of Spec (reads that return data).
MaxReads == 2
\* Successful connects in one run of Spec.
MaxConnects == 2
\* Chunks the panel delivers in one run of SpecEvents.
MaxEventReads == 2
\* Chunks without a delimiter delivered in one run of SpecOverflow.
MaxJunkReads == 17
\* Chunks the panel delivers in one run of SpecZones.
MaxZoneReads == 3
\* Chunks the panel delivers in one run of SpecCommands.
MaxCommandReads == 2
\* Chunks the panel delivers in one run of SpecHeap.
MaxHeapReads == 2

\* reads and connections in SpecTeardown
MaxTeardownReads == 1

MaxTeardownConnects == 2

\* reads and connections in SpecLive
MaxLiveReads == 1

MaxLiveConnects == 2

\* reads and connections in SpecOrder
MaxOrderReads == 2

MaxOrderConnects == 2

\* reads in SpecNotify
MaxNotifyReads == 2

\* reads in SpecSync
MaxSyncReads == 3

\* ------------------------------------------------------- program constants
READ_SIZE == 512
OVERFLOW_LIMIT == 8192
maxsize == 0

None == "None"

\* ----------------------------------------------------------- text helpers
LF == "LF"
CR == "CR"
JUNK == "JUNK"

DELIMITERS == << <<LF>>, <<LF, CR>>, <<CR, LF>>, <<CR>> >>

UpperSet ==
    {"A","B","C","D","E","F","G","H","I","J","K","L","M",
     "N","O","P","Q","R","S","T","U","V","W","X","Y","Z"}

LowerSet ==
    {"a","b","c","d","e","f","g","h","i","j","k","l","m",
     "n","o","p","q","r","s","t","u","v","w","x","y","z"}

DigitSet == {"0","1","2","3","4","5","6","7","8","9"}

\* the characters str.strip() and str.split() treat as whitespace
Whitespace == {" ", "TAB", LF, CR}

IsUpper(c) == c \in UpperSet

IsDigit(c) == c \in DigitSet

\* str.upper() on one character
UpperChar(c) ==
    IF c \notin LowerSet THEN c
    ELSE CASE c = "a" -> "A" [] c = "b" -> "B" [] c = "c" -> "C" [] c = "d" -> "D"
           [] c = "e" -> "E" [] c = "f" -> "F" [] c = "g" -> "G" [] c = "h" -> "H"
           [] c = "i" -> "I" [] c = "j" -> "J" [] c = "k" -> "K" [] c = "l" -> "L"
           [] c = "m" -> "M" [] c = "n" -> "N" [] c = "o" -> "O" [] c = "p" -> "P"
           [] c = "q" -> "Q" [] c = "r" -> "R" [] c = "s" -> "S" [] c = "t" -> "T"
           [] c = "u" -> "U" [] c = "v" -> "V" [] c = "w" -> "W" [] c = "x" -> "X"
           [] c = "y" -> "Y" [] c = "z" -> "Z"

RECURSIVE Upper(_)
Upper(s) == IF s = <<>> THEN <<>> ELSE <<UpperChar(Head(s))>> \o Upper(Tail(s))

\* str.strip(): drop leading and trailing whitespace
RECURSIVE LStrip(_)
LStrip(s) ==
    IF s # <<>> /\ Head(s) \in Whitespace THEN LStrip(Tail(s)) ELSE s

RECURSIVE RStrip(_)
RStrip(s) ==
    IF s # <<>> /\ s[Len(s)] \in Whitespace
    THEN RStrip(SubSeq(s, 1, Len(s) - 1))
    ELSE s

Strip(s) == RStrip(LStrip(s))

StartsWith(s, p) == Len(s) >= Len(p) /\ SubSeq(s, 1, Len(p)) = p

\* the `in` operator of str: p occurs somewhere in s
Contains(s, p) ==
    \E i \in 0..(Len(s) - Len(p)) : SubSeq(s, i + 1, i + Len(p)) = p

\* position of the first occurrence of p in s at or after position i, 0 when
\* there is none
RECURSIVE FindFrom(_, _, _)
FindFrom(s, p, i) ==
    IF i + Len(p) - 1 > Len(s) THEN 0
    ELSE IF SubSeq(s, i, i + Len(p) - 1) = p THEN i
    ELSE FindFrom(s, p, i + 1)

Find(s, p) == FindFrom(s, p, 1)

\* bytes.replace(old, new): every non-overlapping occurrence, left to right
RECURSIVE Replace(_, _, _)
Replace(s, old, new) ==
    IF Len(s) < Len(old) THEN s
    ELSE IF SubSeq(s, 1, Len(old)) = old
    THEN new \o Replace(SubSeq(s, Len(old) + 1, Len(s)), old, new)
    ELSE <<Head(s)>> \o Replace(Tail(s), old, new)

\* number of bytes a token sequence stands for
RECURSIVE ByteLen(_)
ByteLen(s) ==
    IF s = <<>> THEN 0
    ELSE (IF Head(s) = JUNK THEN READ_SIZE ELSE 1) + ByteLen(Tail(s))

\* str.split(): the whitespace-separated tokens of s
RECURSIVE SplitWs(_)
SplitWs(s) ==
    LET t == LStrip(s)
    IN  IF t = <<>> THEN <<>>
        ELSE LET n == IF \E i \in 1..Len(t) : t[i] \in Whitespace
                      THEN (CHOOSE i \in 1..Len(t) :
                               /\ t[i] \in Whitespace
                               /\ \A j \in 1..(i - 1) : t[j] \notin Whitespace) - 1
                      ELSE Len(t)
             IN  <<SubSeq(t, 1, n)>> \o SplitWs(SubSeq(t, n + 1, Len(t)))

DigitValue(c) ==
    CASE c = "0" -> 0 [] c = "1" -> 1 [] c = "2" -> 2 [] c = "3" -> 3 [] c = "4" -> 4
      [] c = "5" -> 5 [] c = "6" -> 6 [] c = "7" -> 7 [] c = "8" -> 8 [] c = "9" -> 9

RECURSIVE DigitsValue(_)
DigitsValue(s) ==
    IF s = <<>> THEN 0
    ELSE 10 * DigitsValue(SubSeq(s, 1, Len(s) - 1)) + DigitValue(s[Len(s)])

AllDigits(s) == s # <<>> /\ \A i \in 1..Len(s) : IsDigit(s[i])

\* int(text) succeeds: an optional sign followed by digits
IntParses(s) ==
    \/ AllDigits(s)
    \/ s # <<>> /\ Head(s) \in {"+", "-"} /\ AllDigits(Tail(s))

\* an int() that yields 0 for every text
IntValue_zero(s) == 0

IntValue(s) ==
    IF Head(s) = "-" THEN 0 - DigitsValue(Tail(s))
    ELSE IF Head(s) = "+" THEN DigitsValue(Tail(s))
    ELSE DigitsValue(s)

\* ------------------------------------------------------------- translator
\* Text written as a string literal per character
OK_STATUS == <<"O","K"," ","S","T","A","T","U","S">>
OK_OUTPUTON == <<"O","K"," ","O","U","T","P","U","T","O","N">>
ERR == <<"E","R","R">>

\* An entry of ZONE_STATUS_MAP; status_type None stands for a missing key.
ZoneInfo(t, a) == [status_type |-> t, action |-> a]

ZONE_STATUS_MAP(prefix) ==
    CASE prefix = <<"Z","A">>         -> ZoneInfo("alarm", TRUE)
      [] prefix = <<"Z","B","L">>     -> ZoneInfo("battery_low", TRUE)
      [] prefix = <<"Z","B","Y">>     -> ZoneInfo("bypassed", TRUE)
      [] prefix = <<"Z","I","A">>     -> ZoneInfo("sensor_watch_alarm", TRUE)
      [] prefix = <<"Z","O">>         -> ZoneInfo("open", TRUE)
      [] prefix = <<"Z","T">>         -> ZoneInfo("trouble", TRUE)
      [] prefix = <<"Z","S","A">>     -> ZoneInfo("supervise_alarm", TRUE)
      [] prefix = <<"Z","B","R">>     -> ZoneInfo("battery_low", FALSE)
      [] prefix = <<"Z","B","Y","R">> -> ZoneInfo("bypassed", FALSE)
      [] prefix = <<"Z","C">>         -> ZoneInfo("open", FALSE)
      [] prefix = <<"Z","I","R">>     -> ZoneInfo("sensor_watch_alarm", FALSE)
      [] prefix = <<"Z","R">>         -> ZoneInfo("alarm", FALSE)
      [] prefix = <<"Z","T","R">>     -> ZoneInfo("trouble", FALSE)
      [] prefix = <<"Z","S","R">>     -> ZoneInfo("supervise_alarm", FALSE)
      [] OTHER                        -> ZoneInfo(None, FALSE)

PARTITION_STATUS_MAP(prefix) ==
    CASE prefix = <<"A">>     -> "partition_away_armed"
      [] prefix = <<"A","A">> -> "partition_in_alarm"
      [] prefix = <<"A","R">> -> "partition_alarm_restored"
      [] prefix = <<"D">>     -> "partition_disarmed"
      [] prefix = <<"E","A">> -> "partition_exit_away_timing"
      [] prefix = <<"E","S">> -> "partition_exit_stay_timing"
      [] prefix = <<"N","R">> -> "partition_not_ready"
      [] prefix = <<"R","O">> -> "partition_ready"
      [] prefix = <<"S">>     -> "partition_stay_armed"
      [] prefix = <<"O","O">> -> "output_on"
      [] prefix = <<"O","R">> -> "output_ready"
      [] OTHER                -> None

\* the lengths k of a letter prefix with which s matches <k letters><1-2 digits>
PrefixLens(s, lo, hi) ==
    {k \in lo..hi :
        /\ Len(s) \in {k + 1, k + 2}
        /\ \A i \in 1..k : IsUpper(s[i])
        /\ \A i \in (k + 1)..Len(s) : IsDigit(s[i])}

ZONE_MESSAGE_PATTERN_never(s) == {}

\* ^(Z[A-Z]{1,3})(\d{1,2})$
ZONE_MESSAGE_PATTERN(s) == {k \in PrefixLens(s, 2, 4) : s[1] = "Z"}

\* ^([A-Z]{1,2})(\d{1,2})$
PARTITION_MESSAGE_PATTERN(s) == PrefixLens(s, 1, 2)

\* The translated messages.  has_data says whether the dict has a "data" key.
EmptyEvent ==
    [type |-> "empty", has_data |-> FALSE, zone_id |-> 0, status_type |-> None,
     action |-> FALSE, status |-> None, code |-> 0]

SyncStartEvent == [EmptyEvent EXCEPT !.type = "sync_start"]

CommandResponse(status, code) ==
    [EmptyEvent EXCEPT !.type = "command_response", !.has_data = TRUE,
                       !.status = status, !.code = code]

ZoneEvent(zone_id, info) ==
    [EmptyEvent EXCEPT !.type = "zone", !.has_data = TRUE, !.zone_id = zone_id,
                       !.status_type = info.status_type, !.action = info.action]

PartitionEvent(area_id, status) ==
    [EmptyEvent EXCEPT !.type = "partition", !.has_data = TRUE,
                       !.zone_id = area_id, !.status = status]

_translate_message(message) ==
    LET raw_message == Upper(Strip(message))
        tokens == SplitWs(raw_message)
        zk == ZONE_MESSAGE_PATTERN(raw_message)
        pk == PARTITION_MESSAGE_PATTERN(raw_message)
        zprefix == SubSeq(raw_message, 1, CHOOSE k \in zk : TRUE)
        pprefix == SubSeq(raw_message, 1, CHOOSE k \in pk : TRUE)
        Suffix(prefix) == SubSeq(raw_message, Len(prefix) + 1, Len(raw_message))
    IN  IF Contains(raw_message, OK_STATUS) THEN SyncStartEvent
        ELSE IF Contains(raw_message, OK_OUTPUTON)
             THEN CommandResponse("success", 0)
        ELSE IF StartsWith(raw_message, ERR)
             THEN IF Len(tokens) >= 2 /\ IntParses(tokens[2])
                  THEN CommandResponse("error", IntValue(tokens[2]))
                  ELSE CommandResponse("error", 0)
        ELSE IF zk # {} /\ ZONE_STATUS_MAP(zprefix).status_type # None
             THEN ZoneEvent(DigitsValue(Suffix(zprefix)), ZONE_STATUS_MAP(zprefix))
        ELSE IF pk # {}
             THEN PartitionEvent(DigitsValue(Suffix(pprefix)),
                                 PARTITION_STATUS_MAP(pprefix))
        ELSE EmptyEvent

\* ------------------------------------------------------------ coordinator
\* config_data[ZONES]: the zone numbers the host configured
configured_zones == {1, 2, 3}

ZoneStatus(o, a, b) == [open |-> o, alarm |-> a, bypassed |-> b]

\* self.data before the first refresh or event
NoData == [partition_status |-> "NoData", zones |-> [z \in {} |-> {}]]

_get_initial_data ==
    [partition_status |-> "partition_disarmed",
     zones |-> [z \in configured_zones |-> ZoneStatus(FALSE, FALSE, FALSE)]]

\* armed_states with "partition_in_alarm" left out
armed_states_without_alarm ==
    {"partition_away_armed", "partition_stay_armed",
     "partition_exit_away_timing", "partition_exit_stay_timing"}

armed_states ==
    {"partition_away_armed", "partition_stay_armed", "partition_in_alarm",
     "partition_exit_away_timing", "partition_exit_stay_timing"}

\* the shielded statuses with "partition_disarmed" among them
shielded_statuses_with_disarmed ==
    {"partition_ready", "partition_alarm_restored", "partition_not_ready",
     "output_on", "output_ready", "partition_disarmed"}

shielded_statuses ==
    {"partition_ready", "partition_alarm_restored", "partition_not_ready",
     "output_on", "output_ready"}

\* an assignment that builds the zone's dict afresh, every other field false
SetKey_fresh(zone, key, value) ==
    [k \in {"open", "alarm", "bypassed"} \cup {key} |-> k = key /\ value]

\* an assignment that never clears a field that is set
SetKey_sticky(zone, key, value) ==
    [k \in (DOMAIN zone) \cup {key} |->
        IF k = key THEN value \/ (key \in DOMAIN zone /\ zone[key]) ELSE zone[k]]

\* cur_zone[status_key] = action on a copy of the zone's dict
SetKey(zone, key, value) ==
    [k \in (DOMAIN zone) \cup {key} |-> IF k = key THEN value ELSE zone[k]]

\* What one call of the handler leaves behind: base is the snapshot it worked
\* from, data the snapshot in place when it returns.
Outcome(base, d, sip, rz, raised, published, fired) ==
    [base |-> base, data |-> d, sync |-> sip, received |-> rz, raised |-> raised,
     published |-> published, fired |-> fired]

\* other_alarms that never sees another zone in alarm
other_alarms_never(zones, zone_id) == FALSE

\* any(z["alarm"] for zid, z in new_data["zones"].items() if zid != zone_id)
other_alarms(zones, zone_id) ==
    \E zid \in DOMAIN zones : zid # zone_id /\ zones[zid].alarm

\* an alarm derivation that does not promote the partition on a zone alarm
alarm_derivation_without_promotion(action, others, current_status) ==
    IF action THEN current_status
    ELSE IF ~others /\ current_status = "partition_in_alarm"
         THEN "partition_disarmed"
         ELSE current_status

\* if status_key == "alarm": the partition status a zone alarm event leaves
alarm_derivation(action, others, current_status) ==
    IF action THEN "partition_in_alarm"
    ELSE IF ~others /\ current_status = "partition_in_alarm"
         THEN "partition_disarmed"
         ELSE current_status

\* a zone update that takes every zone id
in_zones_always(zones, zone_id) == TRUE

\* if zone_id in new_data["zones"]
in_zones(zones, zone_id) == zone_id \in DOMAIN zones

\* new_data["zones"][zone_id] = cur_zone, cur_zone being the zone's dict with
\* status_key set to action
SetZone(zones, zone_id, status_key, action) ==
    [z \in (DOMAIN zones) \cup {zone_id} |->
        IF z = zone_id
        THEN SetKey(IF z \in DOMAIN zones THEN zones[z]
                    ELSE ZoneStatus(FALSE, FALSE, FALSE),
                    status_key, action)
        ELSE zones[z]]

HandleZone(message, d, sip, rz) ==
    LET zone_id == message.zone_id
        status_key == message.status_type
        action == message.action
        rz1 == IF sip THEN rz \cup {zone_id} ELSE rz
        zones1 == IF in_zones(d.zones, zone_id)
                  THEN SetZone(d.zones, zone_id, status_key, action)
                  ELSE d.zones
        ps1 == IF status_key = "alarm"
               THEN alarm_derivation(action, other_alarms(zones1, zone_id),
                                     d.partition_status)
               ELSE d.partition_status
    IN  Outcome(d, [partition_status |-> ps1, zones |-> zones1],
                sip, rz1, FALSE, TRUE, FALSE)

\* a cleanup that every ready event starts
sync_cleanup_on_ready(new_status, sip) == new_status = "partition_ready"

\* if new_status == "partition_ready" and self._sync_in_progress
sync_cleanup(new_status, sip) == new_status = "partition_ready" /\ sip

HandlePartition(message, d, sip, rz) ==
    LET new_status == message.status
        current_status == d.partition_status
        ps1 == IF current_status \in armed_states /\ new_status \in shielded_statuses
               THEN current_status
               ELSE new_status
        cleanup == sync_cleanup(new_status, sip)
        zones1 == IF cleanup
                  THEN [zid \in DOMAIN d.zones |->
                           IF zid \notin rz THEN ZoneStatus(FALSE, FALSE, FALSE)
                           ELSE d.zones[zid]]
                  ELSE d.zones
    IN  Outcome(d, [partition_status |-> ps1, zones |-> zones1],
                IF cleanup THEN FALSE ELSE sip, rz, FALSE, TRUE, FALSE)

\* _async_handle_api_message: message["data"] raises KeyError when the
\* translated dict has no "data" key.
_async_handle_api_message(message, d, sip, rz) ==
    LET d1 == IF d = NoData THEN _get_initial_data ELSE d
    IN  IF ~message.has_data
        THEN Outcome(d, d, sip, rz, TRUE, FALSE, FALSE)
        ELSE IF message.type = "command_response"
        THEN Outcome(d, d, sip, rz, FALSE, FALSE, message.status = "error")
        ELSE IF message.type = "sync_start"
        THEN Outcome(d1, d1, TRUE, {}, FALSE, FALSE, FALSE)
        ELSE IF message.type = "zone" THEN HandleZone(message, d1, sip, rz)
        ELSE IF message.type = "partition" THEN HandlePartition(message, d1, sip, rz)
        ELSE Outcome(d1, d1, sip, rz, FALSE, TRUE, FALSE)

\* ------------------------------------------------- the handler, by reference
\* The same handler on dict objects: a heap is the sequence of the objects
\* built so far, and a reference is an object's position in it.
SnapshotObject(ps, zones_ref) ==
    [kind |-> "snapshot", partition_status |-> ps, zones |-> zones_ref]

DictObject(items) == [kind |-> "dict", items |-> items]

ZoneObject(fields) == [kind |-> "zone", fields |-> fields]

\* the zone map a dict object holds, by value
ZonesOf(h, zones_ref) ==
    [z \in DOMAIN h[zones_ref].items |-> h[h[zones_ref].items[z]].fields]

\* the snapshot a reference stands for, by value
Deref(h, ref) ==
    IF ref = 0 THEN NoData
    ELSE [partition_status |-> h[ref].partition_status,
          zones |-> ZonesOf(h, h[ref].zones)]

\* the objects ZoneStatus(open=False, alarm=False, bypassed=False) for zones S
RECURSIVE NewZones(_, _, _)
NewZones(h, items, S) ==
    IF S = {} THEN [heap |-> h, items |-> items]
    ELSE LET z == CHOOSE x \in S : \A y \in S : x <= y
         IN  NewZones(Append(h, ZoneObject(ZoneStatus(FALSE, FALSE, FALSE))),
                      [y \in (DOMAIN items) \cup {z} |->
                          IF y = z THEN Len(h) + 1 ELSE items[y]],
                      S \ {z})

\* _get_initial_data(): the new objects and the reference of the snapshot
_get_initial_data_on_heap(h) ==
    LET zs == NewZones(h, [z \in {} |-> 0], configured_zones)
        h1 == Append(zs.heap, DictObject(zs.items))
    IN  [heap |-> Append(h1, SnapshotObject("partition_disarmed", Len(h1))),
         ref |-> Len(h1) + 1]

\* new_data["zones"] bound to the dict of self.data itself, with no copy
alias_dict(h, zones_ref) == [heap |-> h, ref |-> zones_ref]

\* dict(self.data["zones"]): a new dict holding the same zone objects
copy_dict(h, zones_ref) ==
    [heap |-> Append(h, DictObject(h[zones_ref].items)), ref |-> Len(h) + 1]

\* the zone branch, writing to the objects of new_data
HandleZoneOnHeap(message, h, new_data) ==
    LET zone_id == message.zone_id
        status_key == message.status_type
        action == message.action
        zd == h[new_data].zones
        h1 == IF zone_id \in DOMAIN h[zd].items
              THEN LET cur_zone == SetKey(h[h[zd].items[zone_id]].fields,
                                          status_key, action)
                       hc == Append(h, ZoneObject(cur_zone))
                   IN  [hc EXCEPT ![zd].items[zone_id] = Len(hc)]
              ELSE h
    IN  IF status_key = "alarm"
        THEN [h1 EXCEPT ![new_data].partition_status =
                 alarm_derivation(action, other_alarms(ZonesOf(h1, zd), zone_id), @)]
        ELSE h1

\* the partition branch, writing to the objects of new_data
HandlePartitionOnHeap(message, h, new_data, sip, rz) ==
    LET new_status == message.status
        current_status == h[new_data].partition_status
        zd == h[new_data].zones
        h1 == IF current_status \in armed_states /\ new_status \in shielded_statuses
              THEN h
              ELSE [h EXCEPT ![new_data].partition_status = new_status]
        fresh == NewZones(h1, h1[zd].items, (DOMAIN h1[zd].items) \ rz)
    IN  IF new_status = "partition_ready" /\ sip
        THEN [fresh.heap EXCEPT ![zd].items = fresh.items]
        ELSE h1

\* _async_handle_api_message on the objects: the heap it leaves, the reference
\* in self.data, and the references it put in self.data on the way
_async_handle_api_message_on_heap(message, h, ref, sip, rz) ==
    IF ~message.has_data \/ message.type = "command_response"
    THEN [heap |-> h, ref |-> ref, visible |-> {}]
    ELSE LET init == IF ref = 0 THEN _get_initial_data_on_heap(h)
                     ELSE [heap |-> h, ref |-> ref]
             vis == IF ref = 0 THEN {init.ref} ELSE {}
         IN  IF message.type = "sync_start"
             THEN [heap |-> init.heap, ref |-> init.ref, visible |-> vis]
             ELSE LET zc == copy_dict(init.heap, init.heap[init.ref].zones)
                      h2 == Append(zc.heap,
                                   SnapshotObject(init.heap[init.ref].partition_status,
                                                  zc.ref))
                      new_data == Len(h2)
                      h3 == IF message.type = "zone"
                            THEN HandleZoneOnHeap(message, h2, new_data)
                            ELSE IF message.type = "partition"
                            THEN HandlePartitionOnHeap(message, h2, new_data, sip, rz)
                            ELSE h2
                  IN  [heap |-> h3, ref |-> new_data,
                       visible |-> vis \cup {new_data}]

\* the snapshots given to readers, each with the value it had when given
Publish(pub, h, refs) == pub \cup {[ref |-> r, value |-> Deref(h, r)] : r \in refs}

\* ---------------------------------------------------------------- the API
\* Queue.full() of a queue built with maxsize=2
full_bounded(q) == Len(q) >= 2

\* self._queue = asyncio.Queue(): Queue.full() with the default maxsize
full(q) == IF maxsize <= 0 THEN FALSE ELSE Len(q) >= maxsize

\* _ack that writes nothing
_ack_nothing(w) == 0

\* _ack: the number of "OK\n" lines written, given the writer
_ack(w) == IF w # "none" THEN 1 ELSE 0

\* a normalization that leaves the bytes as they came
_normalize_identity(bytes) == bytes

_normalize_delimiter(bytes) ==
    Replace(Replace(Replace(bytes, DELIMITERS[2], DELIMITERS[1]),
                    DELIMITERS[3], DELIMITERS[1]),
            DELIMITERS[4], DELIMITERS[1])

\* buffer.split(b"\n", 1)
SplitLine(bytes) == SubSeq(bytes, 1, Find(bytes, DELIMITERS[1]) - 1)

SplitRest(bytes) == SubSeq(bytes, Find(bytes, DELIMITERS[1]) + 1, Len(bytes))

HasLine(bytes) == Contains(bytes, DELIMITERS[1])

\* the frames the inner loop of listen() splits off a buffer, in order
RECURSIVE Frames(_)
Frames(bytes) ==
    IF HasLine(bytes)
    THEN <<SplitLine(bytes)>> \o Frames(SplitRest(bytes))
    ELSE <<>>

\* what is left of a buffer after its frames
RECURSIVE Residual(_)
Residual(bytes) == IF HasLine(bytes) THEN Residual(SplitRest(bytes)) ELSE bytes

\* ------------------------------------------------------- the outbound lines
\* b"OK\n"
OK_LINE == <<"O","K">> \o DELIMITERS[1]

\* f"{command}{DELIMITERS[delimiter_index]}" for request_status and set_mode(2)
STATUS_LINE == <<"S","T","A","T","U","S">> \o DELIMITERS[1]

MODE_LINE == <<"M","O","D","E"," ","2">> \o DELIMITERS[3]

Operations ==
    {"set_mode", "set_user", "arm_away", "arm_stay", "disarm", "bypass_zone",
     "unbypass_zone", "trigger_output"}

\* the line of an entity's command, built from the operation's command word
\* and its argument; set_mode passes delimiter index 2, the others the default
COMMAND_LINE(op, arg) ==
    <<op, " ", ToString(arg)>>
        \o (IF op = "set_mode" THEN DELIMITERS[3] ELSE DELIMITERS[1])

\* a whole line as the panel sees it, up to its LF: an acknowledgment or a
\* command with nothing before or after it on the line
ValidLine(line) ==
    \/ line \o DELIMITERS[1] \in {OK_LINE, STATUS_LINE, MODE_LINE}
    \/ /\ Len(line) \in {3, 4}
       /\ line[1] \in Operations
       /\ line[2] = " "
       /\ Len(line) = 4 => (line[1] = "set_mode" /\ line[4] = CR)
       /\ Len(line) = 3 => line[1] # "set_mode"

\* a write that hands the transport all but the last byte, the rest at drain()
write_partial(line) == SubSeq(line, 1, Len(line) - 1)

\* self.writer.write(b_cmd): the bytes the call appends to the transport's
\* stream before the task suspends in drain()
write(line) == line

\* the bytes of the line that reach the stream only when drain() resumes
drain_rest(line) == SubSeq(line, Len(write(line)) + 1, Len(line))

\* a closing transport drops what is written to it
Sent(w, bytes) == IF w = "open" THEN bytes ELSE <<>>

\* the lines that bytes complete on a transport, without their LF
Completed(wr, bytes) == Frames(wr.tail \o bytes)

\* the transport's stream after bytes are appended to it
wire_after(wr, bytes) ==
    [tail |-> Residual(wr.tail \o bytes),
     ok |-> wr.ok /\ \A i \in DOMAIN Completed(wr, bytes) :
                        ValidLine(Completed(wr, bytes)[i])]

\* a _send_command that writes whatever the writer is
_send_command_unchecked(w) == [raised |-> "none", written |-> 1]

\* _send_command: what it raises and how many command lines reach the wire.
\* Without a writer it raises ConnectionError; a closing transport drops the
\* write and drain() raises "Connection lost".
_send_command(w) ==
    IF w = "none" THEN [raised |-> "ConnectionError", written |-> 0]
    ELSE IF w = "closing" THEN [raised |-> "ConnectionResetError", written |-> 0]
    ELSE [raised |-> "none", written |-> 1]

\* is_connected: writer is not None and not writer.is_closing()
is_connected_if_writer(w) == w # "none"

is_connected(w) == w = "open"

\* ------------------------------------------------------------------ state
VARIABLES
    writer,            \* self.writer: "none", "open", or "closing"
    lpc,               \* the listener task: "none", "read", "ack", "done"
    lerr,              \* how the listener task ended: "none", "eof", "error",
                       \* "cancelled", "QueueFull"
    buffer,            \* listen(): the working buffer
    message,           \* listen(): the frame acknowledged and not yet enqueued
    acks,              \* acknowledgments written by the current listener task
    enq,               \* frames enqueued by the current listener task
    queue,             \* self._queue
    cpc,               \* the task in self._consumer_task: "none", "wait", "done"
    orphans,           \* live consumer tasks no longer referenced by the API
    data,              \* coordinator.data
    _sync_in_progress,
    _received_zones,
    rpc,               \* _async_update_data: "idle", "connecting", "mode", "status"
    reads,             \* chunks delivered so far
    junk_reads,        \* chunks without a delimiter delivered so far
    connects,          \* successful connects so far
    last,              \* what the last consumed frame did
    script,            \* how much of the resync example sequence was just applied
    sent,              \* what the last call of _send_command by an entity did
    heap,              \* the dict objects the handler built, by reference
    data_ref,          \* the reference held in coordinator.data, 0 for None
    published,         \* the snapshots readers were given: reference and value
    received,          \* the frames the listener put in the queue, in order
    applied,           \* the frames the consumers took from the queue, in order
    unloaded,          \* the host has unloaded the config entry
    first_written,     \* the first command line written on the connection
    tick,              \* what the refresh cycle in progress has done
    connection_exc,    \* the exception the connection was lost with
    closed,            \* what the last call of close_connection did
    stream,            \* the bytes the panel sent and those not yet read
    wire               \* the bytes written to the transport: those after the
                       \* last delimiter, and whether every line was whole

vars == <<writer, lpc, lerr, buffer, message, acks, enq, queue, cpc, orphans,
          data, _sync_in_progress, _received_zones, rpc, reads, junk_reads,
          connects, last, script, sent, heap, data_ref, published,
          received, applied, unloaded, first_written, tick, connection_exc,
          closed, stream, wire>>

listener_vars == <<lpc, lerr, buffer, message, acks, enq>>

coordinator_vars == <<data, _sync_in_progress, _received_zones>>

command_vars == <<sent>>

heap_vars == <<heap, data_ref, published>>

order_vars == <<received, applied>>

host_vars == <<unloaded>>

stream_vars == <<stream>>

outbound_vars == <<wire>>

NoWire == [tail |-> <<>>, ok |-> TRUE]

NoStream == [whole |-> <<>>, rest |-> <<>>]

wire_vars == <<first_written, tick>>

transport_vars == <<connection_exc, closed>>

NoClosed ==
    [valid |-> FALSE, calls |-> 0, raised |-> "none", writer_before |-> "none",
     writer_after |-> "none", listener_after |-> "none",
     consumer_after |-> "none", same |-> TRUE]

NoTick ==
    [valid |-> FALSE, connected |-> FALSE, ops |-> <<>>, failed |-> FALSE,
     wire |-> <<>>]

\* the refresh cycle ended with UpdateFailed
FailedTick == [NoTick EXCEPT !.failed = TRUE]

\* the first command line written on a connection: w when one was written
\* before, cmd otherwise
Log(w, cmd) == IF w = "none" THEN cmd ELSE w

NoSent ==
    [valid |-> FALSE, op |-> "none", arg |-> 0, connected |-> FALSE,
     raised |-> "none", written |-> 0]

NoLast ==
    [valid |-> FALSE, frame |-> <<>>, event |-> EmptyEvent, invoked |-> FALSE,
     called |-> <<>>, status_written |-> FALSE,
     raised |-> FALSE, published |-> FALSE, fired |-> FALSE, resync |-> FALSE,
     before |-> NoData, after |-> NoData,
     sync_before |-> FALSE, sync_after |-> FALSE,
     received_before |-> {}, received_after |-> {},
     open_last |-> [z \in configured_zones |-> "none"]]

Init ==
    /\ writer = "none"
    /\ lpc = "none"
    /\ lerr = "none"
    /\ buffer = <<>>
    /\ message = <<>>
    /\ acks = 0
    /\ enq = 0
    /\ queue = <<>>
    /\ cpc = "none"
    /\ orphans = 0
    /\ data = NoData
    /\ _sync_in_progress = FALSE
    /\ _received_zones = {}
    /\ rpc = "idle"
    /\ reads = 0
    /\ junk_reads = 0
    /\ connects = 0
    /\ last = NoLast
    /\ script = 0
    /\ sent = NoSent
    /\ heap = <<>>
    /\ data_ref = 0
    /\ published = {}
    /\ received = <<>>
    /\ applied = <<>>
    /\ unloaded = FALSE
    /\ first_written = "none"
    /\ stream = NoStream
    /\ wire = NoWire
    /\ tick = NoTick
    /\ connection_exc = "none"
    /\ closed = NoClosed

LiveListeners == IF lpc \in {"read", "ack"} THEN 1 ELSE 0

LiveConsumers == (IF cpc = "wait" THEN 1 ELSE 0) + orphans

\* ----------------------------------------------------------- refresh cycle
\* _async_update_data up to its first await
RefreshTick ==
    /\ rpc = "idle"
    /\ ~unloaded
    /\ \E bytes \in {IF is_connected(writer) THEN write(STATUS_LINE) ELSE <<>>} :
          /\ tick' = [valid |-> TRUE, connected |-> writer = "open",
                      ops |-> IF is_connected(writer) THEN <<"STATUS">> ELSE <<>>,
                      failed |-> FALSE, wire |-> Completed(wire, bytes)]
          /\ wire' = wire_after(wire, bytes)
    /\ rpc' = IF is_connected(writer) THEN "status" ELSE "connecting"
    /\ UNCHANGED <<writer, listener_vars, queue, cpc, orphans, coordinator_vars,
                   reads, junk_reads, connects, last, script, sent, heap_vars,
                   order_vars, host_vars, stream_vars, transport_vars, first_written>>

\* connect(): open_connection returned; both tasks are created
connect(max_connects) ==
    /\ rpc = "connecting"
    /\ connects < max_connects
    /\ connects' = connects + 1
    /\ writer' = "open"
    /\ lpc' = "read"
    /\ lerr' = "none"
    /\ buffer' = <<>>
    /\ message' = <<>>
    /\ acks' = 0
    /\ enq' = 0
    /\ cpc' = "wait"
    /\ orphans' = orphans + (IF cpc = "wait" THEN 1 ELSE 0)
    /\ rpc' = "mode"
    /\ first_written' = "MODE 2"
    /\ \E new \in {[wire EXCEPT !.tail = <<>>]} :
          /\ tick' = [tick EXCEPT !.ops = @ \o <<"connect", "MODE 2">>,
                                  !.wire = @ \o Completed(new, write(MODE_LINE))]
          /\ wire' = wire_after(new, write(MODE_LINE))
    /\ connection_exc' = "none"
    /\ closed' = NoClosed
    /\ UNCHANGED <<queue, coordinator_vars, reads, junk_reads, last, script, sent, heap_vars,
                   order_vars, host_vars, stream_vars>>

\* set_mode(2): "MODE 2" is written; a closing writer makes drain raise
set_mode ==
    /\ rpc = "mode"
    /\ rpc' = IF is_connected(writer) THEN "status" ELSE "idle"
    /\ first_written' = IF is_connected(writer) THEN Log(first_written, "STATUS")
                        ELSE first_written
    /\ \E bytes \in {IF is_connected(writer)
                      THEN drain_rest(MODE_LINE) \o write(STATUS_LINE)
                      ELSE <<>>} :
          /\ tick' = IF is_connected(writer)
                     THEN [tick EXCEPT !.ops = Append(@, "STATUS"),
                                       !.wire = @ \o Completed(wire, bytes)]
                     ELSE FailedTick
          /\ wire' = wire_after(wire, bytes)
    /\ UNCHANGED <<writer, listener_vars, queue, cpc, orphans, coordinator_vars,
                   reads, junk_reads, connects, last, script, sent, heap_vars,
                   order_vars, host_vars, stream_vars, transport_vars>>

\* a refresh that always returns a new initial snapshot
refresh_result_initial(d) == _get_initial_data

\* if self.data is None: return self._get_initial_data(); return self.data
refresh_result(d) == IF d = NoData THEN _get_initial_data ELSE d

\* request_status() and the return of _async_update_data, on the values
_async_update_data_return ==
    /\ rpc = "status"
    /\ rpc' = "idle"
    /\ tick' = NoTick
    /\ data' = IF is_connected(writer) THEN refresh_result(data) ELSE data
    /\ wire' = wire_after(wire, Sent(writer, drain_rest(STATUS_LINE)))
    /\ UNCHANGED <<writer, listener_vars, queue, cpc, orphans, _sync_in_progress,
                   _received_zones, reads, junk_reads, connects, last, script, sent,
                   host_vars, stream_vars, transport_vars, first_written>>

\* request_status() and the return of _async_update_data
request_status ==
    _async_update_data_return /\ UNCHANGED <<heap_vars, order_vars>>

\* open_connection fails, or the 10 s timeout ends the cycle: UpdateFailed
UpdateFailed ==
    /\ rpc \in {"connecting", "mode", "status"}
    /\ rpc' = "idle"
    /\ tick' = FailedTick
    /\ UNCHANGED <<writer, listener_vars, queue, cpc, orphans, coordinator_vars,
                   reads, junk_reads, connects, last, script, sent, heap_vars,
                   order_vars, host_vars, outbound_vars, stream_vars, transport_vars, first_written>>

\* ------------------------------------------------------------ the listener
\* The inner while loop of listen() up to its await: the next line is split
\* off, decoded and acknowledged; with no line left the task reads again.
NextLine(bytes, drained) ==
    IF HasLine(bytes)
    THEN /\ message' = SplitLine(bytes)
         /\ buffer' = SplitRest(bytes)
         /\ acks' = acks + _ack(writer)
         /\ wire' = wire_after(wire, drained \o Sent(writer, write(OK_LINE)))
         /\ lpc' = "ack"
    ELSE /\ message' = <<>>
         /\ buffer' = bytes
         /\ acks' = acks
         /\ wire' = wire_after(wire, drained)
         /\ lpc' = "read"

\* reader.read(512) returns data: one chunk of at most READ_SIZE bytes
listen_read(chunk, max_reads) ==
    /\ lpc = "read"
    /\ ByteLen(chunk) \in 1..READ_SIZE
    /\ IF HasLine(_normalize_delimiter(chunk))
       THEN /\ reads < max_reads
            /\ reads' = reads + 1
            /\ junk_reads' = junk_reads
       ELSE /\ junk_reads < MaxJunkReads
            /\ junk_reads' = junk_reads + 1
            /\ reads' = reads
    /\ \E bytes \in {_normalize_delimiter(buffer \o chunk)} :
          NextLine(bytes, <<>>)
    /\ UNCHANGED <<writer, lerr, enq, queue, cpc, orphans, coordinator_vars, rpc,
                   connects, last, script, sent, heap_vars,
                   order_vars, host_vars, transport_vars, wire_vars>>

ListenRead(chunk, max_reads) ==
    listen_read(chunk, max_reads) /\ UNCHANGED stream_vars

\* The panel sends a byte string; TCP delivers it in reads of any length.
PanelSends(bytes) ==
    /\ lpc = "read"
    /\ writer = "open"
    /\ stream = NoStream
    /\ buffer = <<>>
    /\ stream' = [whole |-> bytes, rest |-> bytes]
    /\ UNCHANGED <<writer, listener_vars, queue, cpc, orphans, coordinator_vars,
                   rpc, reads, junk_reads, connects, last, script, sent,
                   heap_vars, order_vars, host_vars, outbound_vars, wire_vars, transport_vars>>

\* reader.read(512) returns the next k bytes of what the panel sent
ListenReadStream(k, max_reads) ==
    /\ k \in 1..Len(stream.rest)
    /\ listen_read(SubSeq(stream.rest, 1, k), max_reads)
    /\ stream' = [stream EXCEPT
                     !.rest = SubSeq(stream.rest, k + 1, Len(stream.rest))]

\* Queue.put_nowait on a queue that is not full: the item goes to the end
put_nowait_front(q, item) == <<item>> \o q

put_nowait(q, item) == Append(q, item)

\* The acknowledgment is drained: put_nowait(message), then the loop goes on.
listen_put ==
    /\ lpc = "ack"
    /\ IF full(queue)
       THEN /\ lpc' = "done"
            /\ lerr' = "QueueFull"
            /\ wire' = wire_after(wire, Sent(writer, drain_rest(OK_LINE)))
            /\ UNCHANGED <<buffer, message, acks, enq, queue>>
       ELSE /\ queue' = put_nowait(queue, message)
            /\ enq' = enq + 1
            /\ lerr' = lerr
            /\ NextLine(buffer, Sent(writer, drain_rest(OK_LINE)))
    /\ UNCHANGED <<writer, cpc, orphans, coordinator_vars, rpc, reads, junk_reads,
                   connects, last, script, sent, heap_vars, host_vars, stream_vars,
                   transport_vars, wire_vars>>

ListenEnqueue == listen_put /\ UNCHANGED order_vars

\* put_nowait(message) with a record of the frames handed over
ListenEnqueueRecorded ==
    /\ listen_put
    /\ received' = IF full(queue) THEN received ELSE Append(received, message)
    /\ applied' = applied

\* reader.read(512) returns b"": the loop ends, the transport stays half open
ListenEOF_flush ==
    /\ lpc = "read"
    /\ lpc' = "done"
    /\ lerr' = "eof"
    /\ IF buffer # <<>>
       THEN /\ acks' = acks + _ack(writer)
            /\ queue' = put_nowait(queue, buffer)
            /\ enq' = enq + 1
            /\ buffer' = <<>>
       ELSE UNCHANGED <<acks, queue, enq, buffer>>
    /\ UNCHANGED <<writer, message, cpc, orphans, coordinator_vars, rpc, reads,
                   junk_reads, connects, last, script, sent, heap_vars,
                   order_vars, host_vars, outbound_vars, stream_vars, transport_vars, wire_vars>>

ListenEOF ==
    /\ lpc = "read"
    /\ lpc' = "done"
    /\ lerr' = "eof"
    /\ UNCHANGED <<writer, buffer, message, acks, enq, queue, cpc, orphans,
                   coordinator_vars, rpc, reads, junk_reads, connects, last, script, sent, heap_vars,
                   order_vars, host_vars, outbound_vars, stream_vars, transport_vars, wire_vars>>

\* The transport is lost (reset, write error): the writer is closing, and the
\* listener, waiting in read() or in drain(), ends with the error.  The
\* consumer waits on the queue and is not touched.
ConnectionLost ==
    /\ writer = "open"
    /\ writer' = "closing"
    /\ lpc' = IF lpc \in {"read", "ack"} THEN "done" ELSE lpc
    /\ lerr' = IF lpc \in {"read", "ack"} THEN "error" ELSE lerr
    /\ connection_exc' = "ConnectionResetError"
    /\ UNCHANGED <<buffer, message, acks, enq, queue, cpc, orphans,
                   coordinator_vars, rpc, reads, junk_reads, connects, last, script, sent, heap_vars,
                   order_vars, host_vars, outbound_vars, stream_vars, wire_vars, closed>>

\* ------------------------------------------------------------ the commands
MODES == {1, 2, 3}

\* The checks an operation makes on its numeric argument before it builds the
\* command: set_mode checks the mode, set_user the user, the others nothing.
validates(op, arg) ==
    IF op = "set_mode" THEN arg \in MODES
    ELSE IF op = "set_user" THEN arg \in 1..99
    ELSE TRUE

\* arm_away, arm_stay, disarm, bypass_zone, unbypass_zone, trigger_output:
\* an entity or a service issues a command, which goes to _send_command
Command(op, arg) ==
    /\ \E r \in {IF validates(op, arg) THEN _send_command(writer)
                  ELSE [raised |-> "ValueError", written |-> 0]} :
          /\ sent' = [valid |-> TRUE, op |-> op, arg |-> arg,
                      connected |-> is_connected(writer),
                      raised |-> r.raised, written |-> r.written]
          /\ first_written' = IF r.written > 0 THEN Log(first_written, op)
                              ELSE first_written
          /\ wire' = IF r.written > 0
                     THEN wire_after(wire, write(COMMAND_LINE(op, arg))
                                               \o drain_rest(COMMAND_LINE(op, arg)))
                     ELSE wire
    /\ UNCHANGED <<writer, listener_vars, queue, cpc, orphans, coordinator_vars,
                   rpc, reads, junk_reads, connects, last, script, heap_vars,
                   order_vars, host_vars, stream_vars, transport_vars, tick>>

\* close_connection(): the two tasks the API holds are cancelled and
\* forgotten, and the writer, when there is one, is closed
cancel_task_failing(running) == IF running THEN "RuntimeError" ELSE "none"

\* task.cancel() and await task, for a task that is not done: a task that is
\* cancelled before it is done ends with CancelledError, whatever it was
\* about to do; a task that is done, or None, is skipped.
cancel_task(running) == IF running THEN "CancelledError" ELSE "none"

\* What ends the two awaits of close_connection: contextlib.suppress lets
\* everything but CancelledError through.
Escapes(l, c) ==
    IF l \notin {"none", "CancelledError"} THEN l
    ELSE IF c \notin {"none", "CancelledError"} THEN c
    ELSE "none"

\* What close_connection raises: the error of an awaited task, or the
\* exception the connection was lost with, which wait_closed() raises again
close_connection_raises(l, c, w, exc) ==
    IF Escapes(l, c) # "none" THEN Escapes(l, c)
    ELSE IF w # "none" THEN exc
    ELSE "none"

close_connection ==
    \E l \in {cancel_task(lpc \in {"read", "ack"})} :
    \E c \in {cancel_task(cpc = "wait")} :
       /\ IF Escapes(l, c) = "none"
          THEN /\ lpc' = "none"
               /\ lerr' = IF l = "CancelledError" THEN "cancelled" ELSE lerr
               /\ cpc' = "none"
               /\ writer' = IF writer = "none" THEN "none" ELSE "closing"
          ELSE \* the error leaves close_connection at the await
               /\ lpc' = IF l = "none" THEN lpc ELSE "done"
               /\ lerr' = IF l = "none" THEN lerr
                          ELSE IF l = "CancelledError" THEN "cancelled"
                          ELSE "error"
               /\ cpc' = IF Escapes(l, c) = l THEN cpc ELSE "done"
               /\ writer' = writer
       /\ UNCHANGED <<buffer, message, acks, enq, queue, orphans, coordinator_vars,
                      rpc, reads, junk_reads, connects, last, script, sent,
                      heap_vars, order_vars, host_vars, outbound_vars, stream_vars, wire_vars,
                      connection_exc>>

\* close_connection() where nobody looks at what the call did
Close == close_connection /\ UNCHANGED closed

\* close_connection() with a record of what the call did
CloseRecorded ==
    /\ close_connection
    /\ closed' = [valid |-> TRUE,
                  calls |-> IF closed.calls < 2 THEN closed.calls + 1 ELSE 2,
                  raised |-> close_connection_raises(
                                 cancel_task(lpc \in {"read", "ack"}),
                                 cancel_task(cpc = "wait"), writer,
                                 connection_exc),
                  writer_before |-> writer, writer_after |-> writer',
                  listener_after |-> lpc', consumer_after |-> cpc',
                  same |-> <<writer', lpc', cpc'>> = <<writer, lpc, cpc>>]

\* async_unload_entry(): the platforms are unloaded and nothing else is done;
\* with no entity left the host schedules no further refresh
async_unload_entry ==
    /\ ~unloaded
    /\ rpc = "idle"
    /\ data # NoData
    /\ unloaded' = TRUE
    /\ UNCHANGED <<writer, listener_vars, queue, cpc, orphans, coordinator_vars,
                   rpc, reads, junk_reads, connects, last, script, sent,
                   heap_vars, order_vars, wire_vars, transport_vars,
                   stream_vars, outbound_vars>>

\* ------------------------------------------------------------ the consumer
ResyncExample(i, ev) ==
    CASE i = 1 -> ev.type = "sync_start"
      [] i = 2 -> ev.type = "zone" /\ ev.zone_id = 1
                    /\ ev.status_type = "open" /\ ev.action
      [] i = 3 -> ev.type = "zone" /\ ev.zone_id = 3
                    /\ ev.status_type = "bypassed" /\ ev.action
      [] i = 4 -> ev.type = "partition" /\ ev.status = "partition_ready"
      [] OTHER -> FALSE

NextScript(n, ev) ==
    IF ev.type = "empty" THEN n
    ELSE IF ResyncExample(n + 1, ev) THEN n + 1
    ELSE IF ResyncExample(1, ev) THEN 1
    ELSE 0

\* The action of the last open / closed event the handler applied for each
\* configured zone, "none" when there was none since the last sync ended.
NextOpenLast(ol, ev, out, sip) ==
    IF out.raised THEN ol
    ELSE IF ev.type = "zone" /\ ev.status_type = "open"
            /\ ev.zone_id \in configured_zones
    THEN [ol EXCEPT ![ev.zone_id] = IF ev.action THEN "on" ELSE "off"]
    ELSE IF ev.type = "partition" /\ ev.status = "partition_ready" /\ sip
    THEN [z \in configured_zones |-> "none"]
    ELSE ol

\* The callbacks registered with register_callback: the coordinator's handler
_callbacks == <<"coordinator">>

Range(seq) == {seq[i] : i \in 1..Len(seq)}

callbacks_invoked_always(event, callbacks) == callbacks

\* if data: await asyncio.gather(*(cb(data) for cb in self._callbacks)): the
\* callbacks called for a translated message, in order; {} is falsy
callbacks_invoked(event, callbacks) ==
    IF event.type # "empty" THEN callbacks ELSE <<>>

\* One turn of the loop of _message_consumer, run by the task the API holds
\* (who = "current") or by a task an earlier connect() left behind, on the
\* values.
_message_consumer(who) ==
    /\ queue # <<>>
    /\ IF who = "current" THEN cpc = "wait" ELSE orphans > 0
    /\ \E ev \in {_translate_message(Head(queue))} :
       \E called \in {callbacks_invoked(ev, _callbacks)} :
       \E out \in {IF "coordinator" \in Range(called)
                   THEN _async_handle_api_message(ev, data, _sync_in_progress,
                                                  _received_zones)
                   ELSE Outcome(data, data, _sync_in_progress, _received_zones,
                                FALSE, FALSE, FALSE)} :
          \* request_status() in the except block raises on a closing writer
          LET dies == out.raised /\ ~is_connected(writer)
          IN  /\ queue' = Tail(queue)
              /\ data' = out.data
              /\ _sync_in_progress' = out.sync
              /\ _received_zones' = out.received
              /\ last' = [valid |-> TRUE, frame |-> Head(queue), event |-> ev,
                          invoked |-> called # <<>>, called |-> called,
                          raised |-> out.raised,
                          published |-> out.published, fired |-> out.fired,
                          resync |-> out.raised,
                          status_written |-> out.raised /\ is_connected(writer),
                          before |-> out.base, after |-> out.data,
                          sync_before |-> _sync_in_progress,
                          sync_after |-> out.sync,
                          received_before |-> _received_zones,
                          received_after |-> out.received,
                          open_last |-> NextOpenLast(last.open_last, ev, out,
                                                     _sync_in_progress)]
              /\ script' = NextScript(script, ev)
              /\ cpc' = IF dies /\ who = "current" THEN "done" ELSE cpc
              /\ orphans' = IF dies /\ who # "current" THEN orphans - 1
                            ELSE orphans
              /\ first_written' = IF out.raised /\ is_connected(writer)
                                  THEN Log(first_written, "STATUS")
                                  ELSE first_written
              /\ wire' = IF out.raised /\ is_connected(writer)
                         THEN wire_after(wire, write(STATUS_LINE)
                                                   \o drain_rest(STATUS_LINE))
                         ELSE wire
    /\ UNCHANGED <<writer, listener_vars, rpc, reads, junk_reads, connects, sent,
                   host_vars, stream_vars, transport_vars, tick>>

\* One turn of the loop of _message_consumer
Consume(who) == _message_consumer(who) /\ UNCHANGED <<heap_vars, order_vars>>

\* One turn of the loop of _message_consumer with a record of the frames
\* taken from the queue
ConsumeRecorded(who) ==
    /\ _message_consumer(who)
    /\ applied' = Append(applied, Head(queue))
    /\ UNCHANGED <<heap_vars, received>>

\* ------------------------------------------------- the objects, by reference
\* One turn of the loop of _message_consumer with the objects the handler
\* builds and writes
ConsumeOnHeap ==
    /\ _message_consumer("current")
    /\ UNCHANGED order_vars
    /\ \E ev \in {_translate_message(Head(queue))} :
       \E r \in {IF ev.type # "empty"
                 THEN _async_handle_api_message_on_heap(
                          ev, heap, data_ref, _sync_in_progress, _received_zones)
                 ELSE [heap |-> heap, ref |-> data_ref, visible |-> {}]} :
          /\ heap' = r.heap
          /\ data_ref' = r.ref
          /\ published' = Publish(published, r.heap, r.visible)

\* request_status() and the return of _async_update_data with the objects:
\* the first refresh returns a new initial snapshot, a later one self.data
RefreshOnHeap ==
    /\ _async_update_data_return
    /\ UNCHANGED order_vars
    /\ IF is_connected(writer) /\ data_ref = 0
       THEN \E r \in {_get_initial_data_on_heap(heap)} :
               /\ heap' = r.heap
               /\ data_ref' = r.ref
               /\ published' = Publish(published, r.heap, {r.ref})
       ELSE UNCHANGED heap_vars

\* ------------------------------------------------------------ the chunks
Text(frame) == frame \o DELIMITERS[1]

ZO1 == <<"Z","O","1">>
ZO2 == <<"Z","O","2">>
ZA1 == <<"Z","A","1">>
ZA9 == <<"Z","A","9">>
ZBY3 == <<"Z","B","Y","3">>
X1 == <<"X","1">>
ZA2 == <<"Z","A","2">>
ZR1 == <<"Z","R","1">>
ZC1 == <<"Z","C","1">>
ZBL1 == <<"Z","B","L","1">>
ZO5 == <<"Z","O","5">>
ZC5 == <<"Z","C","5">>

PartitionCodes ==
    {<<"A">>, <<"A","A">>, <<"A","R">>, <<"D">>, <<"E","A">>, <<"E","S">>,
     <<"N","R">>, <<"R","O">>, <<"S">>, <<"O","O">>, <<"O","R">>}

\* the panel's answer to STATUS, arriving in one read
StatusDump ==
    Text(OK_STATUS) \o Text(ZO1) \o Text(ZBY3) \o Text(<<"R","O","1">>)

\* what the panel sends in Spec
Chunks == {StatusDump, Text(ZO2), Text(<<"A","1">>)}

\* what the panel sends in SpecEvents: every partition code for area 1, zone
\* frames for configured and unconfigured zones, an unknown code, a status dump
EventChunks ==
    {Text(code \o <<"1">>) : code \in PartitionCodes}
        \cup {Text(ZO2), Text(ZA1), Text(ZA9), Text(X1), StatusDump}

\* what the panel sends in SpecOverflow: bytes without a delimiter, and a
\* delimiter
OverflowChunks == {<<JUNK>>, DELIMITERS[1]}

\* what the panel sends in SpecDelims: "ZO5" d "ZC5" d in one read, for each
\* of the four delimiters d
DelimChunks == {ZO5 \o DELIMITERS[i] \o ZC5 \o DELIMITERS[i] : i \in 1..4}

\* what the panel sends in SpecZones: alarm, restore, open, closed, bypass
\* and battery-low frames of configured zones, and an arming
ZoneChunks ==
    {Text(ZA1), Text(ZA2), Text(ZR1), Text(ZO1), Text(ZC1), Text(ZBY3),
     Text(ZBL1), Text(<<"A","1">>)}

\* what the panel sends in SpecCommands: ERR responses with a code, with a
\* code written with a leading zero, without a code, and with a code that is
\* no number
CommandChunks ==
    {Text(<<"E","R","R"," ","2">>), Text(<<"E","R","R"," ","0","5">>),
     Text(ERR), Text(<<"E","R","R"," ","X">>)}

\* what the panel sends in SpecHeap: zone frames, partition frames and a
\* status dump
HeapChunks ==
    {Text(ZO1), Text(ZC1), Text(ZA2), Text(<<"A","1">>), Text(<<"D","1">>),
     StatusDump}

\* ---------------------------------------------------------- specifications
\* The pipeline and the connection's life cycle.
Next ==
    \/ RefreshTick
    \/ connect(MaxConnects)
    \/ set_mode
    \/ request_status
    \/ UpdateFailed
    \/ \E chunk \in Chunks : ListenRead(chunk, MaxReads)
    \/ ListenEnqueue
    \/ ListenEOF
    \/ ConnectionLost
    \/ \E who \in {"current", "orphan"} : Consume(who)

Spec == Init /\ [][Next]_vars

\* The reconciler under every kind of frame, on one connection.
NextEvents ==
    \/ RefreshTick
    \/ connect(1)
    \/ set_mode
    \/ request_status
    \/ UpdateFailed
    \/ \E chunk \in EventChunks : ListenRead(chunk, MaxEventReads)
    \/ ListenEnqueue
    \/ ListenEOF
    \/ ConnectionLost
    \/ Consume("current")

SpecEvents == Init /\ [][NextEvents]_vars

\* The listener's buffer under bytes that hold no delimiter, on one connection.
NextOverflow ==
    \/ RefreshTick
    \/ connect(1)
    \/ set_mode
    \/ request_status
    \/ UpdateFailed
    \/ \E chunk \in OverflowChunks : ListenRead(chunk, 1)
    \/ ListenEnqueue
    \/ ListenEOF
    \/ ConnectionLost
    \/ Consume("current")

SpecOverflow == Init /\ [][NextOverflow]_vars

\* The reconciler under sequences of zone events, on one connection.
NextZones ==
    \/ RefreshTick
    \/ connect(1)
    \/ set_mode
    \/ request_status
    \/ UpdateFailed
    \/ \E chunk \in ZoneChunks : ListenRead(chunk, MaxZoneReads)
    \/ ListenEnqueue
    \/ ListenEOF
    \/ ConnectionLost
    \/ Consume("current")

SpecZones == Init /\ [][NextZones]_vars

\* Commands from the entities and the panel's ERR responses, on one
\* connection that may be closed.
NextCommands ==
    \/ RefreshTick
    \/ connect(1)
    \/ set_mode
    \/ request_status
    \/ UpdateFailed
    \/ \E chunk \in CommandChunks : ListenRead(chunk, MaxCommandReads)
    \/ ListenEnqueue
    \/ ListenEOF
    \/ ConnectionLost
    \/ Consume("current")
    \/ Command("arm_away", 1)
    \/ Close

SpecCommands == Init /\ [][NextCommands]_vars

\* The arguments the callers of the command operations pass
Arguments == {-1, 0, 1, 3, 4, 99, 100}

\* Every command operation with every argument, on one connection that may be
\* closed or lost.
NextGateway ==
    \/ RefreshTick
    \/ connect(1)
    \/ set_mode
    \/ request_status
    \/ UpdateFailed
    \/ ListenEOF
    \/ ConnectionLost
    \/ \E op \in Operations : \E arg \in Arguments : Command(op, arg)
    \/ Close

SpecGateway == Init /\ [][NextGateway]_vars

\* what the panel sends in SpecTeardown
TeardownChunks == {Text(ZO1)}

\* Connections, reconnections, teardown and the unloading of the entry.
NextTeardown ==
    \/ RefreshTick
    \/ connect(MaxTeardownConnects)
    \/ set_mode
    \/ request_status
    \/ UpdateFailed
    \/ \E chunk \in TeardownChunks : ListenRead(chunk, MaxTeardownReads)
    \/ ListenEnqueue
    \/ ListenEOF
    \/ ConnectionLost
    \/ \E who \in {"current", "orphan"} : Consume(who)
    \/ CloseRecorded
    \/ async_unload_entry

SpecTeardown == Init /\ [][NextTeardown]_vars

\* what the panel sends in SpecLive
LiveChunks == {Text(ZO1)}

\* The panel resets the connection, a bounded number of times
PanelResets ==
    /\ connects < MaxLiveConnects
    /\ ConnectionLost

\* The refresh cycle against a panel that sends, half-closes and resets; the
\* refresh timer keeps firing, and every task that can take a step takes it.
NextLive ==
    \/ RefreshTick
    \/ connect(MaxLiveConnects)
    \/ set_mode
    \/ request_status
    \/ UpdateFailed
    \/ \E chunk \in LiveChunks : ListenRead(chunk, MaxLiveReads)
    \/ ListenEnqueue
    \/ ListenEOF
    \/ PanelResets
    \/ \E who \in {"current", "orphan"} : Consume(who)

SpecLive ==
    /\ Init
    /\ [][NextLive]_vars
    /\ WF_vars(RefreshTick)
    /\ WF_vars(connect(MaxLiveConnects))
    /\ WF_vars(set_mode)
    /\ WF_vars(request_status)
    /\ WF_vars(ListenEnqueue)
    /\ WF_vars(Consume("current"))

\* The reconciler with its dict objects, on one connection.
NextHeap ==
    \/ RefreshTick
    \/ connect(1)
    \/ set_mode
    \/ RefreshOnHeap
    \/ UpdateFailed
    \/ \E chunk \in HeapChunks : ListenRead(chunk, MaxHeapReads)
    \/ ListenEnqueue
    \/ ListenEOF
    \/ ConnectionLost
    \/ ConsumeOnHeap

SpecHeap == Init /\ [][NextHeap]_vars

\* One read that holds two frames, under each delimiter, on one connection.
NextDelims ==
    \/ RefreshTick
    \/ connect(1)
    \/ set_mode
    \/ request_status
    \/ UpdateFailed
    \/ \E chunk \in DelimChunks : ListenRead(chunk, 1)
    \/ ListenEnqueue
    \/ ListenEOF
    \/ ConnectionLost
    \/ Consume("current")

SpecDelims == Init /\ [][NextDelims]_vars

\* ------------------------------------------------------------------ claims
AllFalse == ZoneStatus(FALSE, FALSE, FALSE)

\* the partition-status enumeration of the data model
PartitionStatuses ==
    {"partition_disarmed", "partition_away_armed", "partition_stay_armed",
     "partition_in_alarm", "partition_alarm_restored",
     "partition_exit_away_timing", "partition_exit_stay_timing",
     "partition_ready", "partition_not_ready", "output_on", "output_ready"}

ArmedFamily ==
    {"partition_away_armed", "partition_stay_armed", "partition_in_alarm",
     "partition_exit_away_timing", "partition_exit_stay_timing"}

BenignStatuses ==
    {"partition_ready", "partition_alarm_restored", "partition_not_ready",
     "output_on", "output_ready"}

ZonePrefixes ==
    {<<"Z","A">>, <<"Z","B","L">>, <<"Z","B","Y">>, <<"Z","I","A">>, <<"Z","O">>,
     <<"Z","T">>, <<"Z","S","A">>, <<"Z","B","R">>, <<"Z","B","Y","R">>,
     <<"Z","C">>, <<"Z","I","R">>, <<"Z","R">>, <<"Z","T","R">>, <<"Z","S","R">>}

\* the leading run of uppercase letters of a frame
RECURSIVE LetterPrefix(_)
LetterPrefix(s) ==
    IF s # <<>> /\ IsUpper(Head(s)) THEN <<Head(s)>> \o LetterPrefix(Tail(s))
    ELSE <<>>

\* a frame that is no sync-start, command acknowledgment or ERR response and
\* whose letter prefix is in neither table
Unrecognized(frame) ==
    /\ ~Contains(Upper(Strip(frame)), OK_STATUS)
    /\ ~Contains(Upper(Strip(frame)), OK_OUTPUTON)
    /\ ~StartsWith(Upper(Strip(frame)), ERR)
    /\ LetterPrefix(Upper(Strip(frame))) \notin ZonePrefixes \cup PartitionCodes

\* C1: the listener writes the acknowledgment of a frame before it enqueues the
\* frame: the acknowledgments written by the listener task are as many as the
\* frames it enqueued, or exactly one more while the acknowledged frame waits
\* to be enqueued, and never fewer.
C1_AckBeforeEnqueue ==
    /\ acks \in {enq, enq + 1}
    /\ lpc = "ack" => acks = enq + 1
    /\ lpc = "read" => acks = enq

C1_Witness == lpc = "ack" /\ acks = 3 /\ enq = 2 /\ Len(queue) = 2

\* C2: shielding: a partition event whose status is benign, applied while
\* partition_status is in the armed family, leaves partition_status as it was.
C2_Shielding ==
    (/\ last.valid
     /\ last.event.type = "partition"
     /\ last.before.partition_status \in ArmedFamily
     /\ last.event.status \in BenignStatuses)
        => last.after.partition_status = last.before.partition_status

C2_Witness ==
    /\ last.valid
    /\ last.event.type = "partition"
    /\ last.event.status = "partition_ready"
    /\ last.before.partition_status = "partition_in_alarm"
    /\ last.after.partition_status = "partition_in_alarm"

\* C3: resync: once sync-start, zone(1, open), zone(3, bypassed) and
\* partition(ready) have been applied in this order, zone 2 is all-false
\* whatever it was before, zones 1 and 3 keep what was reported, and no sync
\* is in progress.
C3_Resync ==
    script = 4 =>
        /\ last.after.zones[2] = AllFalse
        /\ last.after.zones[1].open
        /\ last.after.zones[3].bypassed
        /\ ~last.sync_after

\* C4: the frame "OK STATUS" is translated to sync-start, and the handler then
\* enters sync-in-progress with no zone seen, leaves the snapshot alone,
\* publishes nothing and raises no error.
C4_SyncStart ==
    (last.valid /\ Upper(Strip(last.frame)) = OK_STATUS) =>
        /\ last.event.type = "sync_start"
        /\ last.sync_after
        /\ last.received_after = {}
        /\ last.after = last.before
        /\ ~last.published
        /\ ~last.raised

\* C5: the partition_status of every snapshot is one of the eleven enumerated
\* values.
C5_PartitionStatusEnumerated ==
    data # NoData => data.partition_status \in PartitionStatuses

\* C6: an unrecognized frame is dropped: no subscriber is invoked for it, and
\* the snapshot and the sync session stay as they were.
C6_UnrecognizedDropped ==
    (last.valid /\ Unrecognized(last.frame)) =>
        /\ last.event.type = "empty"
        /\ ~last.invoked
        /\ last.after = last.before
        /\ last.sync_after = last.sync_before
        /\ last.received_after = last.received_before

\* C7: a zone event for a zone that is not configured changes neither the zone
\* map nor partition_status.
C7_UnconfiguredZoneIgnored ==
    (/\ last.valid
     /\ last.event.type = "zone"
     /\ last.event.zone_id \notin configured_zones)
        => /\ last.after.zones = last.before.zones
           /\ last.after.partition_status = last.before.partition_status

\* C8: the listener never goes on reading with a buffer that holds no complete
\* frame and more than 8 KB: such a buffer is discarded.
C8_OverflowDiscarded ==
    ~(lpc = "read" /\ ~HasLine(buffer) /\ ByteLen(buffer) > OVERFLOW_LIMIT)

\* C9: at most one consumer task and at most one listener task is alive.
C9_SingleTasks == LiveConsumers <= 1 /\ LiveListeners <= 1

\* C10: the listener never waits on the consumer: an acknowledged frame can
\* always be enqueued, whatever the queue holds, and the enqueue never fails
\* because the queue is full.
C10_ListenerNeverWaits ==
    /\ lerr # "QueueFull"
    /\ lpc = "ack" => ENABLED (ListenEnqueue /\ lerr' # "QueueFull")

C10_Witness ==
    /\ ~last.valid
    /\ cpc = "wait"
    /\ Len(queue) = 4
    /\ enq = 4
    /\ lpc = "ack"

\* C11: the bytes "ZO5" d "ZC5" d, read at once under any of the four
\* delimiters d, give the two frames "ZO5" then "ZC5" and nothing else: the
\* frames consumed and the frames queued are together the first enq of the
\* two, each frame is acknowledged once (two acknowledgments and two frames
\* enqueued when the listener is back at its read, nothing left in the
\* buffer), and the consumer translates them to zone 5 open=true and then
\* zone 5 open=false.
C11_DelimiterNormalization ==
    LET frames == <<ZO5, ZC5>>
        consumed == IF ~last.valid THEN 0 ELSE IF last.frame = ZO5 THEN 1 ELSE 2
    IN  /\ enq <= 2
        /\ acks <= 2
        /\ consumed <= enq
        /\ queue = SubSeq(frames, consumed + 1, enq)
        /\ lpc = "ack" => message = frames[enq + 1]
        /\ (lpc = "read" /\ reads = 1) => (acks = 2 /\ enq = 2 /\ buffer = <<>>)
        /\ last.valid =>
              /\ last.frame \in {ZO5, ZC5}
              /\ last.invoked
              /\ last.event = ZoneEvent(5, ZoneInfo("open", last.frame = ZO5))

C11_Witness ==
    /\ lpc = "read"
    /\ reads = 1
    /\ acks = 2
    /\ enq = 2
    /\ queue = <<>>
    /\ last.valid
    /\ last.frame = ZC5
    /\ last.event.zone_id = 5
    /\ last.event.status_type = "open"
    /\ ~last.event.action

\* C12: non-shielding: a partition event that is not a benign status arriving
\* in an armed-family state replaces partition_status by the incoming status;
\* so disarmed followed by ready gives ready, and an armed-family status
\* followed by disarmed gives disarmed.
C12_NonShielding ==
    (/\ last.valid
     /\ last.event.type = "partition"
     /\ ~(/\ last.before.partition_status \in ArmedFamily
          /\ last.event.status \in BenignStatuses))
        => last.after.partition_status = last.event.status

C12_Witness ==
    /\ last.valid
    /\ last.event.type = "partition"
    /\ last.before.partition_status = "partition_away_armed"
    /\ last.event.status = "partition_disarmed"
    /\ last.after.partition_status = "partition_disarmed"

ZoneFields == {"open", "alarm", "bypassed"}

\* C13: a zone event for a configured zone naming open, alarm or bypassed
\* sets that field of that zone to the event's action and nothing else: the
\* zone's other two fields and every other zone are as before, and
\* partition_status is as before for an open or bypassed event.
C13_ZoneFrame ==
    (/\ last.valid
     /\ last.event.type = "zone"
     /\ last.event.zone_id \in configured_zones
     /\ last.event.status_type \in ZoneFields)
        => LET z == last.event.zone_id
               k == last.event.status_type
           IN  /\ last.after.zones[z][k] = last.event.action
               /\ \A f \in ZoneFields \ {k} :
                      last.after.zones[z][f] = last.before.zones[z][f]
               /\ DOMAIN last.after.zones = DOMAIN last.before.zones
               /\ \A y \in configured_zones \ {z} :
                      last.after.zones[y] = last.before.zones[y]
               /\ k # "alarm" =>
                      last.after.partition_status = last.before.partition_status

C13_Witness ==
    /\ last.valid
    /\ last.event.type = "zone"
    /\ last.event.zone_id = 1
    /\ last.event.status_type = "open"
    /\ last.event.action
    /\ last.before.zones[1].alarm
    /\ ~last.before.zones[1].open
    /\ last.before.zones[3].bypassed
    /\ last.after.zones[1].alarm
    /\ last.after.zones[1].open
    /\ last.after.zones[3].bypassed
    /\ last.after.partition_status = "partition_in_alarm"

\* C14: every zone status of the snapshot consists of exactly the fields open,
\* alarm and bypassed, whatever zone events were applied.
C14_ThreeFieldsOnly ==
    data # NoData =>
        \A z \in DOMAIN data.zones : DOMAIN data.zones[z] = ZoneFields

\* C15: last write wins: for every configured zone, once an open / closed
\* event has been applied for it (and no sync ended since), the snapshot's
\* open field of the zone is the action of the last such event, whatever
\* other events were applied in between.
C15_LastWriteWins ==
    \A z \in configured_zones :
        /\ last.open_last[z] = "on" => data.zones[z].open
        /\ last.open_last[z] = "off" => ~data.zones[z].open

C15_Witness ==
    /\ last.valid
    /\ last.event.type = "zone"
    /\ last.event.zone_id = 1
    /\ last.event.status_type = "open"
    /\ ~last.event.action
    /\ last.before.zones[1].open
    /\ last.before.zones[1].alarm
    /\ last.open_last[1] = "off"
    /\ ~data.zones[1].open

\* C16: alarm derivation, activation: after a zone event that sets alarm to
\* true, partition_status is in_alarm, whatever it was before.
C16_AlarmPromotion ==
    (/\ last.valid
     /\ last.event.type = "zone"
     /\ last.event.status_type = "alarm"
     /\ last.event.action)
        => last.after.partition_status = "partition_in_alarm"

C16_Witness ==
    /\ last.valid
    /\ last.event.type = "zone"
    /\ last.event.status_type = "alarm"
    /\ last.event.action
    /\ last.event.zone_id = 1
    /\ last.before.partition_status = "partition_away_armed"
    /\ last.after.zones[1].alarm
    /\ last.after.partition_status = "partition_in_alarm"

\* C17: alarm derivation, restoration: after a zone alarm=false event,
\* partition_status is disarmed if it was in_alarm and no other zone has
\* alarm=true, and is as it was before in every other case.
C17_AlarmRestoration ==
    (/\ last.valid
     /\ last.event.type = "zone"
     /\ last.event.status_type = "alarm"
     /\ ~last.event.action)
        => LET others == \E y \in DOMAIN last.before.zones \ {last.event.zone_id} :
                             last.before.zones[y].alarm
           IN  IF last.before.partition_status = "partition_in_alarm" /\ ~others
               THEN last.after.partition_status = "partition_disarmed"
               ELSE last.after.partition_status = last.before.partition_status

C17_Witness ==
    /\ last.valid
    /\ last.event.type = "zone"
    /\ last.event.status_type = "alarm"
    /\ ~last.event.action
    /\ last.event.zone_id = 1
    /\ last.before.zones[1].alarm
    /\ last.before.zones[2].alarm
    /\ last.before.partition_status = "partition_in_alarm"
    /\ ~last.after.zones[1].alarm
    /\ last.after.partition_status = "partition_in_alarm"

\* the code the ERR frames of CommandChunks carry
ExpectedCode(frame) ==
    CASE frame = <<"E","R","R"," ","2">>     -> 2
      [] frame = <<"E","R","R"," ","0","5">> -> 5
      [] OTHER                               -> 0

\* C18: command error path: a frame "ERR <n>" is translated to a
\* command-response failure with code n, and code 0 when the second token is
\* missing or no integer; applying it raises one error notification, leaves
\* the snapshot and the sync session as they were and publishes nothing.
C18_CommandError ==
    (last.valid /\ StartsWith(Upper(Strip(last.frame)), ERR)) =>
        /\ last.event = CommandResponse("error", ExpectedCode(last.frame))
        /\ last.invoked
        /\ last.fired
        /\ ~last.raised
        /\ ~last.published
        /\ last.after = last.before
        /\ last.sync_after = last.sync_before
        /\ last.received_after = last.received_before

C18_Witness ==
    /\ last.valid
    /\ last.frame = <<"E","R","R"," ","2">>
    /\ last.event.type = "command_response"
    /\ last.event.status = "error"
    /\ last.event.code = 2
    /\ last.fired
    /\ last.before = _get_initial_data
    /\ last.after = _get_initial_data

\* C20: a command issued while is_connected is false (never connected, or
\* the connection closed or lost) fails with a connection error and puts no
\* bytes on the wire.
C20_CommandNeedsTransport ==
    (sent.valid /\ ~sent.connected) =>
        /\ sent.raised \in {"ConnectionError", "ConnectionResetError"}
        /\ sent.written = 0

C20_Witness ==
    /\ sent.valid
    /\ ~sent.connected
    /\ writer = "closing"
    /\ lerr = "cancelled"
    /\ sent.raised = "ConnectionResetError"
    /\ sent.written = 0

\* C19: copy-on-write: every snapshot that was given to readers still has,
\* behind its reference, the partition_status, the zone map and the zone
\* statuses it had when it was given, whatever events were applied since.
C19_CopyOnWrite ==
    \A p \in published : Deref(heap, p.ref) = p.value

C19_Witness ==
    /\ Cardinality(published) >= 3
    /\ \E p \in published :
          /\ p.ref # data_ref
          /\ p.value.zones # Deref(heap, data_ref).zones
          /\ p.value.partition_status # Deref(heap, data_ref).partition_status
    /\ Deref(heap, data_ref) = data

\* the objects and the values agree on the current snapshot
HeapAgrees == data_ref # 0 => Deref(heap, data_ref) = data

\* C21: every command operation rejects a numeric argument outside its range
\* with an error and writes nothing: set_mode a mode outside {1,2,3}, set_user
\* a user outside 1..99, the other operations a zone, area or output below 1.
OutOfRange(op, arg) ==
    IF op = "set_mode" THEN arg \notin {1, 2, 3}
    ELSE IF op = "set_user" THEN arg \notin 1..99
    ELSE arg < 1

C21_ArgumentsValidated ==
    (sent.valid /\ OutOfRange(sent.op, sent.arg)) =>
        /\ sent.raised # "none"
        /\ sent.written = 0

C23_UnloadIsClean ==
    unloaded =>
        /\ LiveListeners = 0
        /\ LiveConsumers = 0
        /\ writer # "open"

\* C24: a second call of close_connection raises nothing and leaves the
\* state the first call left: not connected, no listener, no consumer task.
C24_CloseIdempotent ==
    (closed.valid /\ closed.calls >= 2) =>
        /\ closed.raised = "none"
        /\ closed.same
        /\ writer # "open"
        /\ closed.listener_after = "none"
        /\ closed.consumer_after = "none"

\* C25: a refresh tick that finds the transport not connected connects,
\* writes MODE 2 and then STATUS, in that order; one that finds it connected
\* writes STATUS only; the first command written on every connection is
\* MODE 2.
C25_RefreshOrder ==
    /\ (tick.valid /\ rpc = "connecting") =>
           (~tick.connected /\ tick.ops = <<>>)
    /\ (tick.valid /\ rpc = "mode") =>
           (~tick.connected /\ tick.ops = <<"connect", "MODE 2">>)
    /\ (tick.valid /\ rpc = "status") =>
           tick.ops = IF tick.connected THEN <<"STATUS">>
                      ELSE <<"connect", "MODE 2", "STATUS">>
    /\ rpc # "idle" => tick.valid
    /\ writer = "open" => first_written = "MODE 2"

C25_Witness ==
    /\ tick.valid
    /\ ~tick.connected
    /\ tick.ops = <<"connect", "MODE 2", "STATUS">>
    /\ connects = 2
    /\ first_written = "MODE 2"

\* C26: there is no permanent failure state: unless refresh cycles keep
\* ending with UpdateFailed for ever, the system is again and again connected
\* with a running listener task and a running consumer task.
Healthy ==
    /\ writer = "open"
    /\ lpc \in {"read", "ack"}
    /\ cpc = "wait"

C26_NoPermanentFailure == []<>tick.failed \/ []<>Healthy

\* C27: a zero-length read ends the listener cleanly: the task is done
\* without an error, and from then on no acknowledgment is written and no
\* frame is put in the queue, not even the bytes left in the buffer.
C27_CleanEndOfStream ==
    [][lerr' = "eof" =>
          /\ lpc' = "done"
          /\ acks' = acks
          /\ enq' = enq
          /\ buffer' = buffer
          /\ Len(queue') <= Len(queue)]_vars

C27_Witness ==
    /\ lerr = "eof"
    /\ lpc = "done"
    /\ buffer # <<>>
    /\ ~HasLine(buffer)
    /\ enq >= 1
    /\ acks = enq
    /\ writer = "open"

\* what the panel sends in SpecTranslate: every prefix of the two tables
\* followed by one or two digits
TranslateDigits == {<<"1">>, <<"2">>, <<"1","2">>, <<"0","7">>}

TranslateChunks ==
    {Text(prefix \o digits) :
        prefix \in ZonePrefixes \cup PartitionCodes, digits \in TranslateDigits}

\* The translator under every table prefix: one frame on one connection.
NextTranslate ==
    \/ RefreshTick
    \/ connect(1)
    \/ set_mode
    \/ request_status
    \/ UpdateFailed
    \/ \E chunk \in TranslateChunks : ListenRead(chunk, 1)
    \/ ListenEnqueue
    \/ ListenEOF
    \/ ConnectionLost
    \/ Consume("current")

SpecTranslate == Init /\ [][NextTranslate]_vars

\* C28: a frame made of a zone-table prefix and 1-2 digits is translated to
\* the zone event with the table's (status_type, action) and the numeric zone
\* id, never to a partition event; a frame made of a partition-table prefix
\* and 1-2 digits is translated to the partition event with the table's status.
DigitSuffix(s) == SubSeq(s, Len(LetterPrefix(s)) + 1, Len(s))

TableFrame(s, prefixes) ==
    /\ LetterPrefix(s) \in prefixes
    /\ Len(DigitSuffix(s)) \in {1, 2}
    /\ \A i \in 1..Len(DigitSuffix(s)) : IsDigit(DigitSuffix(s)[i])

C28_TranslatorPriority ==
    last.valid =>
        /\ TableFrame(last.frame, ZonePrefixes) =>
               /\ last.event.type = "zone"
               /\ last.event.status_type # None
               /\ last.event =
                      ZoneEvent(DigitsValue(DigitSuffix(last.frame)),
                                ZONE_STATUS_MAP(LetterPrefix(last.frame)))
        /\ TableFrame(last.frame, PartitionCodes) =>
               /\ last.event.type = "partition"
               /\ last.event.status # None
               /\ last.event =
                      PartitionEvent(DigitsValue(DigitSuffix(last.frame)),
                                     PARTITION_STATUS_MAP(LetterPrefix(last.frame)))

C28_Witness ==
    /\ last.valid
    /\ last.frame = <<"Z","A","1","2">>
    /\ PARTITION_MESSAGE_PATTERN(last.frame) # {}
    /\ last.event.type = "zone"
    /\ last.event.zone_id = 12
    /\ last.event.status_type = "alarm"

\* what the panel sends in SpecOrder: two frames in one read, one frame
OrderChunks == {Text(ZO1) \o Text(ZC1), Text(ZA2)}

\* The listener and the consumers, reconnections included, with the record
\* of the frames handed over and taken.
NextOrder ==
    \/ RefreshTick
    \/ connect(MaxOrderConnects)
    \/ set_mode
    \/ request_status
    \/ UpdateFailed
    \/ \E chunk \in OrderChunks : ListenRead(chunk, MaxOrderReads)
    \/ ListenEnqueueRecorded
    \/ ListenEOF
    \/ ConnectionLost
    \/ \E who \in {"current", "orphan"} : ConsumeRecorded(who)

SpecOrder == Init /\ [][NextOrder]_vars

\* C29: frames are applied in arrival order: the frames the consumers have
\* taken, followed by the frames still in the queue, are the frames the listener
\* handed over, in that order, and each event applied is the translation of
\* the frame taken.
C29_ArrivalOrder ==
    /\ applied \o queue = received
    /\ last.valid =>
          /\ applied # <<>>
          /\ last.frame = applied[Len(applied)]
          /\ last.event = _translate_message(last.frame)

C29_Witness ==
    /\ Len(applied) >= 2
    /\ applied[1] # applied[2]
    /\ queue # <<>>
    /\ connects = 2
    /\ orphans > 0

\* what the panel sends in SpecNotify: a frame of each kind of event, and the
\* panel's answer to MODE 2, which is no event
NotifyChunks ==
    {Text(OK_STATUS), Text(ZO1), Text(<<"D","1">>), Text(ERR \o <<" ","2">>),
     Text(<<"M","O","D","E"," ","2">>)}

\* The consumer under every kind of event, on one connection.
NextNotify ==
    \/ RefreshTick
    \/ connect(1)
    \/ set_mode
    \/ request_status
    \/ UpdateFailed
    \/ \E chunk \in NotifyChunks : ListenRead(chunk, MaxNotifyReads)
    \/ ListenEnqueue
    \/ ListenEOF
    \/ ConnectionLost
    \/ Consume("current")

SpecNotify == Init /\ [][NextNotify]_vars

\* C30: for a frame that translates to a zone, partition, sync-start or
\* command-response event every registered callback is called once with that
\* event; for a frame that translates to the empty event none is called.
C30_SubscribersNotified ==
    last.valid =>
        /\ last.event.type \in {"zone", "partition", "sync_start",
                                "command_response"}
              => last.called = <<"coordinator">>
        /\ last.event.type = "empty" => last.called = <<>>
        /\ last.event.type \in {"zone", "partition", "sync_start",
                                "command_response", "empty"}

C30_Witness ==
    /\ last.valid
    /\ last.event.type = "zone"
    /\ last.called = <<"coordinator">>
    /\ last.published

\* what the panel sends in SpecSync: an arming, a zone that opens, and the
\* answer to STATUS in one read
SyncChunks == {Text(<<"A","1">>), Text(ZO2), StatusDump}

\* The reconciler under status dumps, on one connection.
NextSync ==
    \/ RefreshTick
    \/ connect(1)
    \/ set_mode
    \/ request_status
    \/ UpdateFailed
    \/ \E chunk \in SyncChunks : ListenRead(chunk, MaxSyncReads)
    \/ ListenEnqueue
    \/ ListenEOF
    \/ ConnectionLost
    \/ Consume("current")

SpecSync == Init /\ [][NextSync]_vars

\* C31: a ready event that ends a status dump while partition_status is in
\* the armed family leaves partition_status as it was, resets every configured
\* zone the dump did not report to all-false, and ends the sync: after
\* sync-start, zone(1, open), zone(3, bypassed) and partition(ready) applied
\* to an armed snapshot, the status is kept, zone 2 is all-false and no sync
\* is in progress.
C31_ShieldedReadyEndsSync ==
    (script = 4 /\ last.before.partition_status \in ArmedFamily) =>
        /\ last.after.partition_status = last.before.partition_status
        /\ last.after.zones[2] = AllFalse
        /\ ~last.sync_after

\* C32: a ready event received while no sync is in progress resets no zone,
\* a zone event received while no sync is in progress is not recorded among
\* the zones seen, and a partition event other than ready neither ends a sync
\* nor resets a zone.
C32_OnlyInsideSync ==
    (last.valid /\ last.invoked /\ ~last.raised) =>
        /\ (/\ last.event.type = "partition"
            /\ last.event.status = "partition_ready"
            /\ ~last.sync_before) => last.after.zones = last.before.zones
        /\ (last.event.type = "zone" /\ ~last.sync_before) =>
               last.received_after = last.received_before
        /\ (/\ last.event.type = "partition"
            /\ last.event.status # "partition_ready") =>
               /\ last.sync_after = last.sync_before
               /\ last.after.zones = last.before.zones

C32_Witness ==
    /\ last.valid
    /\ last.event.type = "partition"
    /\ last.event.status = "partition_ready"
    /\ ~last.sync_before
    /\ last.before.zones[2].open
    /\ last.after.zones = last.before.zones
    /\ last.published

\* C34: handling the panel's reply to STATUS never makes the consumer write
\* another STATUS: no STATUS is written for an "OK STATUS" frame.
C34_StatusNotSustained ==
    (last.valid /\ last.event.type = "sync_start") => ~last.status_written

\* C35: the consumer task survives a failing subscriber, also when the resync
\* write fails: after a callback raised, the task still waits on the queue.
C35_ConsumerSurvives ==
    (last.valid /\ last.raised) => cpc = "wait"

\* C36: once partition_status is in the armed family, it leaves the family
\* only when a partition event with status disarmed is applied.
C36_ArmedUntilDisarm ==
    [][(/\ data # NoData
        /\ data.partition_status \in ArmedFamily
        /\ data'.partition_status \notin ArmedFamily)
       => (/\ last'.event.type = "partition"
           /\ last'.event.status = "partition_disarmed")]_vars

\* C37: the zone map of every snapshot has exactly the configured zone ids as
\* its keys.
C37_ZoneKeysFixed ==
    /\ data # NoData => DOMAIN data.zones = configured_zones
    /\ (last.valid /\ last.published) =>
           DOMAIN last.after.zones = configured_zones

C37_Witness ==
    /\ last.valid
    /\ last.event.type = "zone"
    /\ last.event.zone_id = 9
    /\ last.published
    /\ data = last.after
    /\ DOMAIN data.zones = {1, 2, 3}

\* C38: a refresh that completes leaves the snapshot the events have built
\* as it is, and an event that arrives before there is a snapshot is applied
\* to the initial snapshot.
C38_RefreshKeepsUpdates ==
    [][/\ (rpc = "status" /\ rpc' = "idle" /\ data # NoData) => data' = data
       /\ (/\ data = NoData
           /\ last' # last
           /\ last'.event.type \in {"zone", "partition"}) =>
              /\ ~last'.raised
              /\ last'.before = _get_initial_data
              /\ data' = last'.after
              /\ data' # NoData]_vars

C38_Witness ==
    /\ rpc = "status"
    /\ tick.ops = <<"connect", "MODE 2", "STATUS">>
    /\ connects = 1
    /\ last.valid
    /\ last.published
    /\ last.before = _get_initial_data
    /\ data = last.after
    /\ data # _get_initial_data

MaxSplitReads == 4

\* what the panel sends in SpecSplit: two frames, delimited by CR LF or by LF
SplitStreams ==
    {ZO5 \o DELIMITERS[3] \o ZC5 \o DELIMITERS[3], Text(ZO1) \o Text(ZC1)}

\* One connection; the panel's bytes arrive cut into reads at any position.
NextSplit ==
    \/ RefreshTick
    \/ connect(1)
    \/ set_mode
    \/ request_status
    \/ UpdateFailed
    \/ \E bytes \in SplitStreams : PanelSends(bytes)
    \/ \E k \in 1..READ_SIZE : ListenReadStream(k, MaxSplitReads)
    \/ ListenEnqueueRecorded
    \/ ListenEOF
    \/ ConnectionLost
    \/ ConsumeRecorded("current")

SpecSplit == Init /\ [][NextSplit]_vars

\* C33: however the bytes the panel sent are cut into reads, once they have
\* all been read and framed the listener has handed over the frames, and
\* written the number of acknowledgments, of a single read of all the bytes.
C33_SplitIndependent ==
    (/\ stream.whole # <<>>
     /\ stream.rest = <<>>
     /\ lpc = "read") =>
        /\ received = Frames(_normalize_delimiter(stream.whole))
        /\ acks = Len(Frames(_normalize_delimiter(stream.whole)))

MaxWireReads == 2

MaxWireConnects == 2

\* what the panel sends in SpecWire: a frame whose handling fails and makes
\* the consumer write a resync STATUS, and two zone frames in one read
WireChunks == {Text(OK_STATUS), Text(ZO1) \o Text(ZC1)}

\* The refresh cycle, the listener, the consumer and an entity's commands
\* write on the same transport.
NextWire ==
    \/ RefreshTick
    \/ connect(MaxWireConnects)
    \/ set_mode
    \/ request_status
    \/ UpdateFailed
    \/ \E chunk \in WireChunks : ListenRead(chunk, MaxWireReads)
    \/ ListenEnqueue
    \/ ConnectionLost
    \/ Consume("current")
    \/ \E op \in {"arm_away", "disarm"} : Command(op, 1)

SpecWire == Init /\ [][NextWire]_vars

\* the lines a refresh cycle has issued, as they appear on the transport
RECURSIVE Issued(_)
Issued(ops) ==
    IF ops = <<>> THEN <<>>
    ELSE (CASE Head(ops) = "MODE 2" -> <<SplitLine(MODE_LINE)>>
            [] Head(ops) = "STATUS" -> <<SplitLine(STATUS_LINE)>>
            [] OTHER -> <<>>) \o Issued(Tail(ops))

IsPrefix(s, t) == Len(s) <= Len(t) /\ SubSeq(t, 1, Len(s)) = s

\* C39: outbound lines are never torn: whatever the interleaving of the
\* listener's acknowledgments, the consumer's resync requests, the refresh
\* cycle's commands and the entities' commands, the bytes written to the
\* transport are whole lines, each an acknowledgment or a command with its
\* delimiter, and the lines of the refresh cycle are there in the order the
\* cycle issued them.
C39_NoTornLines ==
    /\ wire.ok
    /\ wire.tail = <<>>
    /\ IsPrefix(tick.wire, Issued(tick.ops))

C39_Witness ==
    /\ lpc = "ack"
    /\ rpc = "status"
    /\ tick.wire = <<SplitLine(MODE_LINE), SplitLine(STATUS_LINE)>>
    /\ last.status_written
    /\ sent.valid
    /\ sent.written = 1
    /\ acks = 2
    /\ connects = 1

====
